---- MODULE Spec2Model ----
(***************************************************************************)
(* bevy_tilemap: the WorldMap chunk store, its double-buffered event log   *)
(* and the map_system event consumer (src/map.rs).                         *)
(*                                                                         *)
(* Rust indexes are 0-based; a Vec is a TLA+ sequence, so Vec element i is *)
(* sequence element i + 1.  A panic (index out of bounds, unwrap on None)  *)
(* sets aborted: the partial effects made before the panic are kept and no *)
(* further operation runs.                                                 *)
(***************************************************************************)
EXTENDS Integers, Sequences, FiniteSets, TLC

VARIABLES
    dimensions,      \* WorldMap.dimensions: [x, y] chunks per axis
    handles,         \* WorldMap.handles: Vec<Option<Handle<C>>>
    entities,        \* WorldMap.entities: HashMap<usize, Entity>
    events,          \* WorldMap.events: Events<MapEvent>
    chunks,          \* Assets<C>: handle id -> chunk
    textures,        \* Assets<Texture>: chunk handle id -> its chunk texture's data
    nextEntity,      \* entity collaborator: next id handed out by spawn
    live,            \* entity collaborator: entities spawned and not despawned
    aborted,         \* TRUE once an operation has panicked
    createdSent,     \* history: number of Created events sent
    spawnCalls,      \* history: number of commands.spawn calls
    despawnSent,     \* history: number of Despawned and Removed events sent
    despawnCalls,    \* history: number of commands.despawn calls
    reader,          \* a long-lived EventReader: the highest event id consumed
    sent,            \* history: the events sent, in send order
    delivered,       \* history: what the drains of reader yielded, in order
    sinceDrain,      \* history: update() calls since the last drain of reader
    cadenceOk,       \* history: update() never ran twice between two drains
    sentAtUpdate,    \* history: Len(sent) at the latest update()
    doomed,          \* history: events sent before the first of two undrained updates
    lateDelivered,   \* history: doomed events a later drain yielded all the same
    chunkSize,       \* the chunk type's constants: [w |-> C::WIDTH, h |-> C::HEIGHT]
    tileOps,         \* history: number of set_tile / set_tiles calls so far
    input,           \* the arguments of the pure function under study
    output,          \* its result so far
    applied          \* how many times it has been applied

mapVars == <<dimensions, handles, entities, chunks, textures, nextEntity, live, aborted,
             createdSent, spawnCalls, despawnSent, despawnCalls>>
readerVars == <<reader, sent, delivered, sinceDrain, cadenceOk, sentAtUpdate,
                doomed, lateDelivered>>
tileVars == <<chunkSize, tileOps>>
fnVars == <<input, output, applied>>
vars == <<mapVars, events, readerVars, tileVars, fnVars>>

----------------------------------------------------------------------------
(* Bounds *)

MaxDim == 2          \* map dimensions range over 1 .. MaxDim per axis
MaxSent == 2         \* events sent to the map in one behaviour
MaxLog == 4          \* events sent to the event log on its own
MaxHandles == 2      \* handle ids 1 .. MaxHandles
MaxChunks == 2       \* distinct chunk contents 1 .. MaxChunks
MaxSide == 2         \* chunk width and height range over 1 .. MaxSide tiles
MaxTiles == 2        \* distinct tiles 1 .. MaxTiles
MaxSetter == 2       \* entries in one TileSetter
MaxTileOps == 1      \* set_tile / set_tiles calls in one behaviour

\* Option::None, and the absent field of an event or of an operation record.
None == 0
NA == 0 - 1

Dims == 1 .. MaxDim
Coords == 0 .. MaxDim          \* caller coordinates: one past the largest map
HandleIds == 1 .. MaxHandles
ChunkVals == 1 .. MaxChunks
ChunkSizes == [w : 1 .. MaxSide, h : 1 .. MaxSide]
TileVals == 1 .. MaxTiles
\* caller tile coordinates: up to the far corner of the largest map
TileCoords == [x : 0 .. MaxDim * MaxSide - 1, y : 0 .. MaxDim * MaxSide - 1]

----------------------------------------------------------------------------
(* MapEvent *)

Created(index, handle) ==
    [kind |-> "Created", index |-> index, handle |-> handle, entity |-> NA]
Refresh(handle) ==
    [kind |-> "Refresh", index |-> NA, handle |-> handle, entity |-> NA]
Despawned(handle, entity) ==
    [kind |-> "Despawned", index |-> NA, handle |-> handle, entity |-> entity]
Removed(index, entity) ==
    [kind |-> "Removed", index |-> index, handle |-> NA, entity |-> entity]
Modified(handle, setter) ==
    [kind |-> "Modified", index |-> NA, handle |-> handle, entity |-> NA,
     setter |-> setter]

----------------------------------------------------------------------------
(* Event log: two buffers and an event counter; every event carries its id *)

EventsDefault == [previous |-> <<>>, current |-> <<>>, event_count |-> 0]

EventsSend(E, ev) ==
    [E EXCEPT !.current = Append(@, [id |-> E.event_count + 1, ev |-> ev]),
              !.event_count = @ + 1]

EventsUpdate(E) ==
    [E EXCEPT !.previous = E.current, !.current = <<>>]

\* A new reader has consumed nothing.
EventsGetReader == 0

\* The events a drain of a reader with this cursor yields: previous, then
\* current, those with an id above the cursor.
ReaderIter(E, cursor) ==
    SelectSeq(E.previous \o E.current, LAMBDA r : r.id > cursor)

\* The cursor after that drain: the last id seen.
ReaderAdvance(E, cursor) ==
    LET got == ReaderIter(E, cursor)
    IN  IF got = <<>> THEN cursor ELSE got[Len(got)].id

send_event(E, ev) == EventsSend(E, ev)

events_update_twice(E) == EventsUpdate(EventsUpdate(E))

events_update_skipped(E) == E

events_update(E) == EventsUpdate(E)

events_reader == EventsGetReader

Ids(s) == {s[i].id : i \in 1 .. Len(s)}
Payloads(s) == [i \in 1 .. Len(s) |-> s[i].ev]

---------------------------------------------------------------------------------------------------------------------------------------------------
(* Coordinates and bounds checking *)

\* ToIndex::to_index: the flat index of a chunk coordinate.
to_index(x, y, width, height) == y * width + x

\* Dimensions2::check_index: a map index is valid iff it is below the area.
check_index(index) == index >= 0 /\ index < dimensions.x * dimensions.y

----------------------------------------------------------------------------
(* WorldMap accessors *)

\* Vec indexing self.handles[index] panics unless this holds.
InVec(index) == index >= 0 /\ index < Len(handles)

get_chunk_handle(index) == handles[index + 1]

contains_entity_by_slot(index) == InVec(index) /\ get_chunk_handle(index) # None

contains_entity(index) == index \in DOMAIN entities

insert_entity(ent, index, entity) ==
    [i \in DOMAIN ent \cup {index} |-> IF i = index THEN entity ELSE ent[i]]

AssetsSet(store, h, c) ==
    [i \in DOMAIN store \cup {h} |-> IF i = h THEN c ELSE store[i]]

\* Assets::add hands out a handle id that no stored asset has.
FreshHandle == CHOOSE h \in HandleIds \ DOMAIN chunks :
                   \A g \in HandleIds \ DOMAIN chunks : h <= g

\* Chunk::clean on a chunk that holds no tiles.
ChunkClean(c) == c

\* A tile is drawn as one pixel of one byte: the rectangle chunk.textures()
\* holds for every local index.
TileRect == [width |-> 1, height |-> 1]

\* Chunk::dimensions(): the chunk's size.
ChunkDimensions == [x |-> chunkSize.w, y |-> chunkSize.h]

\* Chunk::tiles(): the chunks 1 .. MaxChunks hold no tile; chunk MaxChunks + t
\* holds tile t at local index 0 and nothing else.
ChunkTiles(c) ==
    [i \in 1 .. chunkSize.w * chunkSize.h |->
        IF c > MaxChunks /\ i = 1 THEN c - MaxChunks ELSE None]

\* The texture a chunk comes with: WIDTH x HEIGHT tiles, every byte 0.
ChunkTextureSize ==
    [x |-> chunkSize.w * TileRect.width, y |-> chunkSize.h * TileRect.height]
BlankTextureData == [i \in 1 .. ChunkTextureSize.x * ChunkTextureSize.y |-> 0]

----------------------------------------------------------------------------
(* Results of the read-only operations in the current state *)

chunk_exists_res(x, y) ==
    LET index == to_index(x, y, dimensions.x, dimensions.y)
    IN  IF ~InVec(index) THEN "panic"
        ELSE IF get_chunk_handle(index) # None THEN "true" ELSE "false"

get_chunk_res(x, y) ==
    LET index == to_index(x, y, dimensions.x, dimensions.y)
    IN  IF ~check_index(index) THEN [res |-> "OutOfBounds", val |-> NA]
        ELSE IF ~InVec(index) THEN [res |-> "panic", val |-> NA]
        ELSE IF get_chunk_handle(index) = None
                \/ get_chunk_handle(index) \notin DOMAIN chunks
             THEN [res |-> "None", val |-> NA]
        ELSE [res |-> "Some", val |-> chunks[get_chunk_handle(index)]]

get_chunk_mut_res(x, y) ==
    LET index == to_index(x, y, dimensions.x, dimensions.y)
    IN  IF ~check_index(index) THEN [res |-> "OutOfBounds", val |-> NA]
        ELSE IF ~InVec(index) THEN [res |-> "panic", val |-> NA]
        ELSE IF get_chunk_handle(index) = None
                \/ get_chunk_handle(index) \notin DOMAIN chunks
             THEN [res |-> "None", val |-> NA]
        ELSE [res |-> "Some", val |-> chunks[get_chunk_handle(index)]]

\* What set_chunk returns: the outcome of its bounds check.
set_chunk_res(x, y) ==
    IF check_index(to_index(x, y, dimensions.x, dimensions.y))
       THEN "Ok" ELSE "OutOfBounds"

----------------------------------------------------------------------------
(* Construction *)

\* WorldMap::new(dimensions, atlas): the handle Vec is created with a capacity
\* and no elements.
NewWorldMap ==
    /\ dimensions \in [x : Dims, y : Dims]
    /\ handles = <<>>
    /\ entities = <<>>
    /\ events = EventsDefault
    /\ chunks = <<>>
    /\ textures = <<>>
    /\ nextEntity = 1
    /\ live = {}
    /\ aborted = FALSE
    /\ createdSent = 0 /\ spawnCalls = 0 /\ despawnSent = 0 /\ despawnCalls = 0
    /\ reader = events_reader
    /\ sent = <<>>
    /\ delivered = <<>>
    /\ sinceDrain = 0
    /\ cadenceOk = TRUE
    /\ sentAtUpdate = 0
    /\ doomed = {}
    /\ lateDelivered = {}
    /\ chunkSize \in ChunkSizes
    /\ tileOps = 0

Init ==
    /\ NewWorldMap
    /\ input = None
    /\ output = None
    /\ applied = 0

----------------------------------------------------------------------------
(* Map operations *)

set_chunk_event_by_slot(index, h) ==
    IF contains_entity_by_slot(index) THEN Refresh(h) ELSE Created(index, h)

\* The event set_chunk sends once the index has passed the bounds check.
set_chunk_event(index, h) ==
    IF contains_entity(index) THEN Refresh(h) ELSE Created(index, h)

set_dimensions(d) ==
    /\ ~aborted
    /\ handles' = [i \in 1 .. d.x * d.y |-> None]
    /\ dimensions' = d
    /\ UNCHANGED <<entities, events, chunks, textures, nextEntity, live, aborted,
                   createdSent, spawnCalls, despawnSent, despawnCalls, readerVars, tileVars, fnVars>>

add_chunk(c, x, y) ==
    /\ ~aborted
    /\ events.event_count < MaxSent
    /\ HandleIds \ DOMAIN chunks # {}
    /\ LET index == to_index(x, y, dimensions.x, dimensions.y)
           h == FreshHandle
       IN  /\ chunks' = AssetsSet(chunks, h, c)
           /\ textures' = AssetsSet(textures, h, BlankTextureData)
           /\ events' = send_event(events, Created(index, h))
           /\ createdSent' = createdSent + 1
           /\ IF InVec(index)
                 THEN /\ handles' = [handles EXCEPT ![index + 1] = h]
                      /\ aborted' = FALSE
                 ELSE /\ handles' = handles
                      /\ aborted' = TRUE
    /\ UNCHANGED <<dimensions, entities, nextEntity, live, spawnCalls,
                   despawnSent, despawnCalls, readerVars, tileVars, fnVars>>

set_chunk_stored_before_check(h, c, x, y) ==
    /\ ~aborted
    /\ chunks' = AssetsSet(chunks, h, c)
    /\ textures' = AssetsSet(textures, h, BlankTextureData)
    /\ LET index == to_index(x, y, dimensions.x, dimensions.y)
       IN  IF set_chunk_res(x, y) = "OutOfBounds"
              THEN UNCHANGED <<events, createdSent>>
              ELSE /\ events.event_count < MaxSent
                   /\ events' = send_event(events, set_chunk_event(index, h))
                   /\ createdSent' = IF set_chunk_event(index, h).kind = "Created"
                                        THEN createdSent + 1 ELSE createdSent
    /\ UNCHANGED <<dimensions, handles, entities, nextEntity, live, aborted,
                   spawnCalls, despawnSent, despawnCalls, readerVars, tileVars, fnVars>>

set_chunk(h, c, x, y) ==
    /\ ~aborted
    /\ LET index == to_index(x, y, dimensions.x, dimensions.y)
       IN  IF set_chunk_res(x, y) = "OutOfBounds"
              THEN UNCHANGED <<chunks, textures, events, createdSent>>
              ELSE /\ events.event_count < MaxSent
                   /\ chunks' = AssetsSet(chunks, h, c)
                   /\ textures' = AssetsSet(textures, h, BlankTextureData)
                   /\ events' = send_event(events, set_chunk_event(index, h))
                   /\ createdSent' = IF set_chunk_event(index, h).kind = "Created"
                                        THEN createdSent + 1 ELSE createdSent
    /\ UNCHANGED <<dimensions, handles, entities, nextEntity, live, aborted,
                   spawnCalls, despawnSent, despawnCalls, readerVars, tileVars, fnVars>>

\* A read-only operation: it changes nothing unless it panics.
Query(r) ==
    /\ ~aborted
    /\ aborted' = (r.res = "panic")
    /\ UNCHANGED <<dimensions, handles, entities, events, chunks, textures, nextEntity, live,
                   createdSent, spawnCalls, despawnSent, despawnCalls, readerVars, tileVars, fnVars>>

get_chunk(x, y) == Query(get_chunk_res(x, y))

get_chunk_mut(x, y) == Query(get_chunk_mut_res(x, y))

chunk_exists(x, y) == Query([res |-> chunk_exists_res(x, y), val |-> NA])

remove_chunk_handle(index) ==
    /\ ~aborted
    /\ IF InVec(index)
          THEN /\ handles' = [handles EXCEPT ![index + 1] = None]
               /\ aborted' = FALSE
          ELSE /\ handles' = handles
               /\ aborted' = TRUE
    /\ UNCHANGED <<dimensions, entities, events, chunks, textures, nextEntity, live,
                   createdSent, spawnCalls, despawnSent, despawnCalls, readerVars, tileVars, fnVars>>

\* A caller asks for a chunk's entity to be despawned: send_event(Despawned).
SendDespawned(h, e) ==
    /\ ~aborted
    /\ events.event_count < MaxSent
    /\ h \in DOMAIN chunks
    /\ e \in 1 .. nextEntity - 1
    /\ events' = send_event(events, Despawned(h, e))
    /\ despawnSent' = despawnSent + 1
    /\ UNCHANGED <<dimensions, handles, entities, chunks, textures, nextEntity, live, aborted,
                   createdSent, spawnCalls, despawnCalls, readerVars, tileVars, fnVars>>

\* A caller asks for a chunk to be removed: send_event(Removed).
SendRemoved(index, e) ==
    /\ ~aborted
    /\ events.event_count < MaxSent
    /\ check_index(index)
    /\ e \in 1 .. nextEntity - 1
    /\ events' = send_event(events, Removed(index, e))
    /\ despawnSent' = despawnSent + 1
    /\ UNCHANGED <<dimensions, handles, entities, chunks, textures, nextEntity, live, aborted,
                   createdSent, spawnCalls, despawnCalls, readerVars, tileVars, fnVars>>

----------------------------------------------------------------------------
(* Tile writes *)

\* The orders in which a HashSet or a HashMap may be iterated.
Orders(S) ==
    {p \in [1 .. Cardinality(S) -> S] :
        \A i, j \in 1 .. Cardinality(S) : i # j => p[i] # p[j]}

push_chunk_handle(index, handle) ==
    /\ ~aborted
    /\ IF InVec(index)
          THEN /\ handles' = [handles EXCEPT ![index + 1] = handle]
               /\ aborted' = FALSE
          ELSE /\ handles' = handles
               /\ aborted' = TRUE
    /\ UNCHANGED <<dimensions, entities, events, chunks, textures, nextEntity, live,
                   createdSent, spawnCalls, despawnSent, despawnCalls, readerVars,
                   tileVars, fnVars>>

\* An f32 quotient a / b that is not rounded, kept exact as a fraction, and
\* its product with an integer.  Every product taken below is a whole number.
Quot(a, b) == [num |-> a, den |-> b]
Times(q, k) == (q.num * k) \div q.den

\* ToCoord3::to_coord3 of a coordinate is the coordinate.
to_coord3(v) == v

\* Chunk::X_MAX: the largest x inside a chunk.
X_MAX == chunkSize.w - 1

tile_coord_to_chunk_coord(coord) ==
    [x |-> coord.x \div chunkSize.w, y |-> coord.y \div chunkSize.h]

\* get_chunk_handle(chunk_index).unwrap() for the chunk a tile coordinate
\* falls in: NA stands for the panic of an index outside the Vec or of an
\* empty slot.
chunk_handle_of(coord) ==
    LET chunk_coord == tile_coord_to_chunk_coord(coord)
        chunk_index == to_index(chunk_coord.x, chunk_coord.y,
                                dimensions.x, dimensions.y)
    IN  IF ~InVec(chunk_index) THEN NA
        ELSE IF get_chunk_handle(chunk_index) = None THEN NA
        ELSE get_chunk_handle(chunk_index)

\* The local coordinate set_tile computes: neither quotient is floored.
set_tile_coord(coord) ==
    LET tile_y == Quot(coord.y, chunkSize.h)
        map_coord_x == Quot(coord.x, chunkSize.w)
    IN  [x |-> coord.x - Times(map_coord_x, chunkSize.w),
         y |-> chunkSize.h - 1 - (coord.y - Times(tile_y, chunkSize.h))]

\* The local coordinate set_tiles computes for one entry.
set_tiles_coord(setter_coord) ==
    LET chunk_coord == tile_coord_to_chunk_coord(setter_coord)
        map_coord_x == Quot(setter_coord.x \div chunkSize.w, 1)
    IN  [x |-> setter_coord.x - Times(map_coord_x, chunkSize.w),
         y |-> X_MAX - (setter_coord.y - chunk_coord.y * chunkSize.h)]

\* What set_tile returns; it has no error path.
set_tile_res(v) ==
    IF chunk_handle_of(to_coord3(v)) = NA THEN "panic" ELSE "Ok"

\* The event set_tile sends when it does not panic.
set_tile_event(v, tile) ==
    Modified(chunk_handle_of(to_coord3(v)),
             <<[coord |-> set_tile_coord(to_coord3(v)), tile |-> tile]>>)

set_tile(v, tile) ==
    /\ ~aborted
    /\ tileOps < MaxTileOps
    /\ IF set_tile_res(v) = "panic"
          THEN /\ aborted' = TRUE
               /\ events' = events
          ELSE /\ events.event_count < MaxSent
               /\ aborted' = FALSE
               /\ events' = send_event(events, set_tile_event(v, tile))
    /\ tileOps' = tileOps + 1
    /\ UNCHANGED <<dimensions, handles, entities, chunks, textures, nextEntity, live,
                   createdSent, spawnCalls, despawnSent, despawnCalls, readerVars,
                   chunkSize, fnVars>>

\* The entries of a setter with the handle and the local coordinate the loop
\* of set_tiles computes for each.
Placed(setter) ==
    [i \in 1 .. Len(setter) |->
        [handle |-> chunk_handle_of(setter[i].coord),
         coord |-> set_tiles_coord(setter[i].coord),
         tile |-> setter[i].tile]]

tiles_map_pushed_in_front(setter, handle) ==
    LET mine == SelectSeq(Placed(setter), LAMBDA e : e.handle = handle)
    IN  [i \in 1 .. Len(mine) |->
            [coord |-> mine[Len(mine) + 1 - i].coord,
             tile |-> mine[Len(mine) + 1 - i].tile]]

\* tiles_map[handle]: the per-chunk setter the loop builds, entries pushed in
\* input order.
tiles_map(setter, handle) ==
    LET mine == SelectSeq(Placed(setter), LAMBDA e : e.handle = handle)
    IN  [i \in 1 .. Len(mine) |-> [coord |-> mine[i].coord, tile |-> mine[i].tile]]

RECURSIVE SendAll(_, _)
SendAll(E, evs) ==
    IF evs = <<>> THEN E ELSE SendAll(send_event(E, Head(evs)), Tail(evs))

\* The keys of tiles_map once the loop is over; NA is among them iff resolving
\* some entry's chunk panics.
tiles_map_keys(setter) == {Placed(setter)[i].handle : i \in 1 .. Len(setter)}

set_tiles_res(setter) ==
    IF NA \in tiles_map_keys(setter) THEN "panic" ELSE "Ok"

\* The event sequences set_tiles may send when it does not panic: one
\* Modified event per key of tiles_map, in the order the HashMap is iterated.
set_tiles_sent(setter) ==
    {[i \in 1 .. Len(p) |-> Modified(p[i], tiles_map(setter, p[i]))] :
        p \in Orders(tiles_map_keys(setter))}

set_tiles(setter) ==
    /\ ~aborted
    /\ tileOps < MaxTileOps
    /\ IF set_tiles_res(setter) = "panic"
          THEN /\ aborted' = TRUE
               /\ events' = events
          ELSE /\ events.event_count + Cardinality(tiles_map_keys(setter)) <= MaxSent
               /\ aborted' = FALSE
               /\ \E evs \in set_tiles_sent(setter) : events' = SendAll(events, evs)
    /\ tileOps' = tileOps + 1
    /\ UNCHANGED <<dimensions, handles, entities, chunks, textures, nextEntity, live,
                   createdSent, spawnCalls, despawnSent, despawnCalls, readerVars,
                   chunkSize, fnVars>>

----------------------------------------------------------------------------
(* Texture compositor: the free function set_tiles of src/map.rs           *)

copy_from_slice_blended(dst, begin, src, sprite_begin, n) ==
    [i \in 1 .. Len(dst) |->
        IF i > begin /\ i <= begin + n
           THEN (dst[i] + src[sprite_begin + (i - begin)]) % 256 ELSE dst[i]]

copy_from_slice_reversed(dst, begin, src, sprite_begin, n) ==
    [i \in 1 .. Len(dst) |->
        IF i > begin /\ i <= begin + n
           THEN src[sprite_begin + n + 1 - (i - begin)] ELSE dst[i]]

\* dst[begin .. begin + n].copy_from_slice(&src[sprite_begin .. sprite_begin + n])
\* with both ranges inside their buffers (0-based, end excluded).
copy_from_slice(dst, begin, src, sprite_begin, n) ==
    [i \in 1 .. Len(dst) |->
        IF i > begin /\ i <= begin + n
           THEN src[sprite_begin + (i - begin)] ELSE dst[i]]

\* The row loop from row bound_y on, rows_left rows to go: a row whose
\* destination or source range leaves its buffer panics, and the rows copied
\* before it stay copied.
RECURSIVE CopyRows(_, _, _, _, _, _)
CopyRows(data, sheet, bound_y, sprite_y, rows_left, c) ==
    LET begin == (bound_y * c.map_texture_size + c.rect_x) * c.chunk_format_size
        end == begin + c.rect_width * c.chunk_format_size
        sprite_begin == (sprite_y * c.width + c.sprite_x) * c.format_size
        sprite_end == sprite_begin + c.rect_width * c.format_size
    IN  IF rows_left = 0 THEN [data |-> data, panic |-> FALSE]
        ELSE IF end > Len(data) \/ sprite_end > Len(sheet)
             THEN [data |-> data, panic |-> TRUE]
        ELSE CopyRows(copy_from_slice(data, begin, sheet, sprite_begin,
                                      c.rect_width * c.format_size),
                      sheet, bound_y + 1, sprite_y + 1, rows_left - 1, c)

\* set_tiles(tile, chunk_texture, sprite_sheet_texture, sprite_sheet_atlas,
\* chunk_rect, chunk_coord): the chunk texture's data afterwards, and whether
\* the call panicked.  A tile without a texture returns at once; a texture
\* the atlas does not know panics in unwrap.
texture_set_tiles(tile, chunk_texture, sprite_sheet_texture, sprite_sheet_atlas, chunk_rect, chunk_coord) ==
    IF tile.texture = None
       THEN [data |-> chunk_texture.data, panic |-> FALSE]
    ELSE IF tile.texture \notin DOMAIN sprite_sheet_atlas.texture_handles
       THEN [data |-> chunk_texture.data, panic |-> TRUE]
    ELSE LET sprite_idx == sprite_sheet_atlas.texture_handles[tile.texture]
             sprite_rect == sprite_sheet_atlas.textures[sprite_idx + 1]
         IN  CopyRows(chunk_texture.data, sprite_sheet_texture.data,
                      chunk_coord.y, sprite_rect.min.y, chunk_rect.height,
                      [map_texture_size |-> chunk_texture.size.x,
                       chunk_format_size |-> chunk_texture.pixel_size,
                       format_size |-> chunk_texture.pixel_size,
                       width |-> sprite_sheet_texture.size.x,
                       rect_width |-> chunk_rect.width,
                       rect_x |-> chunk_coord.x,
                       sprite_x |-> sprite_rect.min.x])

----------------------------------------------------------------------------
(* map_system *)

\* The events of one kind among the drained ones, as the set map_system
\* collects them in (equal events collapse into one element).
Bucket(got, kind) == {got[i].ev : i \in {j \in 1 .. Len(got) : got[j].ev.kind = kind}}

\* modified_chunks: the drained Modified events, pushed in the order read.
ModifiedChunks(got) == SelectSeq(Payloads(got), LAMBDA ev : ev.kind = "Modified")

\* The sprite sheet: one row of MaxTiles one-byte pixels, tile t drawn as the
\* byte t; the atlas knows the texture of every tile.
SpriteSheet == [size |-> [x |-> MaxTiles, y |-> 1], data |-> [i \in 1 .. MaxTiles |-> i]]

TextureAtlas ==
    [texture_handles |-> [t \in TileVals |-> t - 1],
     textures |-> [t \in 1 .. MaxTiles |-> [min |-> [x |-> t - 1, y |-> 0]]]]

\* Chunk::encode_coord_unchecked: the local index of a local coordinate.
encode_coord_unchecked(coord) == coord.y * chunkSize.w + coord.x

\* Everything map_system reads and writes after it has drained the events.
World ==
    [entities |-> entities, nextEntity |-> nextEntity, live |-> live,
     handles |-> handles, chunks |-> chunks, textures |-> textures,
     spawnCalls |-> spawnCalls, despawnCalls |-> despawnCalls, panic |-> FALSE]

Panicked(w) == [w EXCEPT !.panic = TRUE]

\* One compositor call of map_system on the texture of chunk handle h; a
\* panic keeps the rows copied before it.
Draw(w, h, tile, rect, rect_coord) ==
    LET chunk_texture == [size |-> ChunkTextureSize, pixel_size |-> 1,
                          data |-> w.textures[h]]
        r == texture_set_tiles([texture |-> tile], chunk_texture, SpriteSheet,
                               TextureAtlas, rect, rect_coord)
    IN  [w EXCEPT !.textures[h] = r.data, !.panic = r.panic]

\* The loop over chunk.tiles() of the Created pass, from local index idx on.
RECURSIVE DrawChunkTiles(_, _, _)
DrawChunkTiles(w, h, idx) ==
    LET tiles == ChunkTiles(w.chunks[h])
        rect == TileRect
        rect_x == (idx % (ChunkDimensions.x \div rect.width)) * rect.width
        rect_y == (idx \div (ChunkDimensions.y \div rect.height)) * rect.height
    IN  IF idx >= Len(tiles) \/ w.panic THEN w
        ELSE IF tiles[idx + 1] = None THEN DrawChunkTiles(w, h, idx + 1)
        ELSE DrawChunkTiles(Draw(w, h, tiles[idx + 1], rect,
                                 [x |-> rect_x, y |-> rect_y]), h, idx + 1)

\* The body of the Created pass for one element of new_chunks: draw the
\* chunk's tiles, spawn an entity, record it under the element's index.
CreatedStep(w, ev) ==
    IF ev.handle \notin DOMAIN w.chunks THEN Panicked(w)
    ELSE LET d == DrawChunkTiles(w, ev.handle, 0)
         IN  IF d.panic THEN d
             ELSE [d EXCEPT !.entities = insert_entity(d.entities, ev.index, d.nextEntity),
                            !.live = d.live \cup {d.nextEntity},
                            !.nextEntity = d.nextEntity + 1,
                            !.spawnCalls = d.spawnCalls + 1]

\* The loop over the setter of one element of modified_chunks, from entry i on.
RECURSIVE DrawSetter(_, _, _, _)
DrawSetter(w, h, setter, i) ==
    LET idx == encode_coord_unchecked(setter[i].coord)
        rect == TileRect
        rect_x == (idx % (ChunkTextureSize.x \div rect.width)) * rect.width
        rect_y == (idx \div (ChunkTextureSize.y \div rect.height)) * rect.height
    IN  IF i > Len(setter) \/ w.panic THEN w
        ELSE IF ~(idx >= 0 /\ idx < chunkSize.w * chunkSize.h) THEN Panicked(w)
        ELSE DrawSetter(Draw(w, h, setter[i].tile, rect, [x |-> rect_x, y |-> rect_y]),
                        h, setter, i + 1)

\* The body of the Modified pass for one element of modified_chunks.
ModifiedStep(w, ev) ==
    IF ev.handle \notin DOMAIN w.chunks THEN Panicked(w)
    ELSE DrawSetter(w, ev.handle, ev.setter, 1)

\* The body of the Despawned pass for one element of despawned_chunks.
DespawnedStep(w, ev) ==
    IF ev.handle \notin DOMAIN w.chunks THEN Panicked(w)
    ELSE [w EXCEPT !.chunks[ev.handle] = ChunkClean(w.chunks[ev.handle]),
                   !.live = w.live \ {ev.entity},
                   !.despawnCalls = w.despawnCalls + 1]

\* The body of the Removed pass for one element of removed_chunks: clear the
\* slot, then despawn; clearing a slot outside the Vec panics.
RemovedStep(w, ev) ==
    IF ~(ev.index >= 0 /\ ev.index < Len(w.handles)) THEN Panicked(w)
    ELSE [w EXCEPT !.handles[ev.index + 1] = None,
                   !.live = w.live \ {ev.entity},
                   !.despawnCalls = w.despawnCalls + 1]

\* What map_system does with one event; nothing reads refresh_chunks.
EventStep(w, ev) ==
    CASE ev.kind = "Created" -> CreatedStep(w, ev)
      [] ev.kind = "Modified" -> ModifiedStep(w, ev)
      [] ev.kind = "Despawned" -> DespawnedStep(w, ev)
      [] ev.kind = "Removed" -> RemovedStep(w, ev)
      [] OTHER -> w

\* The loop bodies run one after the other over evs; a panic ends the run.
RECURSIVE RunPasses(_, _)
RunPasses(w, evs) ==
    IF evs = <<>> \/ w.panic THEN w
    ELSE RunPasses(EventStep(w, Head(evs)), Tail(evs))

\* The orders in which one run of map_system may work through the drained
\* events: the Created set, the Modified Vec, the Despawned set, the Removed
\* set, each set in any iteration order.
PassOrders(got) ==
    {p \o ModifiedChunks(got) \o d \o q :
        p \in Orders(Bucket(got, "Created")),
        d \in Orders(Bucket(got, "Despawned")),
        q \in Orders(Bucket(got, "Removed"))}

map_system ==
    /\ ~aborted
    /\ LET updated == events_update(events)
           got == ReaderIter(updated, events_reader)
       IN  /\ events' = updated
           /\ \E evs \in PassOrders(got) :
                  LET w == RunPasses(World, evs)
                  IN  /\ entities' = w.entities
                      /\ nextEntity' = w.nextEntity
                      /\ live' = w.live
                      /\ handles' = w.handles
                      /\ chunks' = w.chunks
                      /\ textures' = w.textures
                      /\ spawnCalls' = w.spawnCalls
                      /\ despawnCalls' = w.despawnCalls
                      /\ aborted' = w.panic
    /\ UNCHANGED <<dimensions, createdSent, despawnSent, readerVars, tileVars, fnVars>>

Next ==
    \/ \E d \in [x : Dims, y : Dims] : set_dimensions(d)
    \/ \E c \in ChunkVals, x \in Coords, y \in Coords : add_chunk(c, x, y)
    \/ \E h \in HandleIds, c \in ChunkVals, x \in Coords, y \in Coords :
           set_chunk(h, c, x, y)
    \/ \E x \in Coords, y \in Coords : get_chunk(x, y)
    \/ \E x \in Coords, y \in Coords : get_chunk_mut(x, y)
    \/ \E x \in Coords, y \in Coords : chunk_exists(x, y)
    \/ \E index \in 0 .. MaxDim * MaxDim - 1 : remove_chunk_handle(index)
    \/ \E h \in HandleIds, e \in 1 .. MaxSent : SendDespawned(h, e)
    \/ \E index \in 0 .. MaxDim * MaxDim - 1, e \in 1 .. MaxSent : SendRemoved(index, e)
    \/ map_system

\* The chunk operations never read the chunk type's size.
InitMap == Init /\ chunkSize = [w |-> 1, h |-> 1]

Spec == InitMap /\ [][Next]_vars

----------------------------------------------------------------------------
(* The event log on its own: senders, the per-frame update and one         *)
(* long-lived reader that is drained at arbitrary moments.                 *)

EventChoices == {Created(0, 1), Refresh(1)}

InitEvents == InitMap /\ dimensions = [x |-> 1, y |-> 1]

EvSend(ev) ==
    /\ Len(sent) < MaxLog
    /\ events' = send_event(events, ev)
    /\ sent' = Append(sent, ev)
    /\ UNCHANGED <<mapVars, tileVars, fnVars, reader, delivered, sinceDrain, cadenceOk,
                   sentAtUpdate, doomed, lateDelivered>>

EvUpdate ==
    /\ events' = events_update(events)
    /\ cadenceOk' = (cadenceOk /\ sinceDrain = 0)
    /\ sinceDrain' = IF sinceDrain = 0 THEN 1 ELSE 2
    /\ doomed' = IF sinceDrain >= 1 THEN doomed \cup (1 .. sentAtUpdate) ELSE doomed
    /\ sentAtUpdate' = Len(sent)
    /\ UNCHANGED <<mapVars, tileVars, fnVars, reader, sent, delivered, lateDelivered>>

EvDrain ==
    /\ LET got == ReaderIter(events, reader)
       IN  /\ delivered' = delivered \o got
           /\ lateDelivered' = lateDelivered \cup (Ids(got) \cap doomed)
    /\ reader' = ReaderAdvance(events, reader)
    /\ sinceDrain' = 0
    /\ UNCHANGED <<mapVars, tileVars, fnVars, events, sent, cadenceOk, sentAtUpdate, doomed>>

NextEvents ==
    \/ \E ev \in EventChoices : EvSend(ev)
    \/ EvUpdate
    \/ EvDrain

SpecEvents == InitEvents /\ [][NextEvents]_vars

----------------------------------------------------------------------------
(* Tile writes on a map whose slots are filled by push_chunk_handle, for   *)
(* every chunk size.                                                       *)

SetterEntries == [coord : TileCoords, tile : TileVals]

Setters == UNION {[1 .. n -> SetterEntries] : n \in 1 .. MaxSetter}

NextTiles ==
    \/ \E d \in [x : Dims, y : Dims] : set_dimensions(d)
    \/ \E index \in 0 .. MaxDim * MaxDim - 1, handle \in {None} \cup HandleIds :
           push_chunk_handle(index, handle)
    \/ \E v \in TileCoords, tile \in TileVals : set_tile(v, tile)
    \/ \E setter \in Setters : set_tiles(setter)

SpecTiles == Init /\ [][NextTiles]_vars

----------------------------------------------------------------------------
(* Rendering: tile writes and chunk replacement on a map whose slots are   *)
(* filled by push_chunk_handle, consumed by map_system                     *)

\* The chunks that hold one tile.
TiledChunkVals == {MaxChunks + t : t \in TileVals}

NextRender ==
    \/ \E d \in [x : Dims, y : Dims] : set_dimensions(d)
    \/ \E index \in 0 .. MaxDim * MaxDim - 1, h \in HandleIds :
           push_chunk_handle(index, h)
    \/ \E v \in TileCoords, tile \in TileVals : set_tile(v, tile)
    \/ \E h \in HandleIds, c \in TiledChunkVals, x \in Coords, y \in Coords :
           set_chunk(h, c, x, y)
    \/ map_system

SpecRender == InitMap /\ [][NextRender]_vars

----------------------------------------------------------------------------
(* Placement: Modified events for registered chunks of every chunk size,   *)
(* consumed by map_system                                                  *)

\* The local coordinates of a chunk and the setters over them.
LocalCoords == [x : 0 .. chunkSize.w - 1, y : 0 .. chunkSize.h - 1]

LocalSetters ==
    UNION {[1 .. n -> [coord : LocalCoords, tile : TileVals]] : n \in 1 .. MaxSetter}

\* A caller reports tiles written into a chunk: send_event(Modified).
SendModified(h, setter) ==
    /\ ~aborted
    /\ events.event_count < MaxSent
    /\ h \in DOMAIN chunks
    /\ events' = send_event(events, Modified(h, setter))
    /\ UNCHANGED <<dimensions, handles, entities, chunks, textures, nextEntity, live, aborted,
                   createdSent, spawnCalls, despawnSent, despawnCalls, readerVars,
                   tileVars, fnVars>>

NextPlace ==
    \/ \E h \in HandleIds, c \in ChunkVals, x \in Coords, y \in Coords :
           set_chunk(h, c, x, y)
    \/ \E h \in HandleIds, setter \in LocalSetters : SendModified(h, setter)
    \/ map_system

SpecPlace == Init /\ [][NextPlace]_vars

----------------------------------------------------------------------------
(* Tile encoding (src/tile.rs): Tile, RawTile and the attribute exports    *)

MaxSprite == 2       \* sprite indexes 0 .. MaxSprite
MaxArea == 2         \* chunk areas 0 .. MaxArea; sparse keys 0 .. MaxArea

\* Color as its four f32 components.
Colors == {<<1, 1, 1, 1>>, <<1, 0, 0, 1>>, <<0, 0, 1, 0>>}

Tiles ==
    [sprite_index : 0 .. MaxSprite, tint : Colors, z_order : 0 .. 1,
     is_horizontally_flipped : BOOLEAN, is_vertically_flipped : BOOLEAN]

from_flags_added_once(tile) ==
    [index |-> tile.sprite_index,
     color |-> tile.tint,
     flags |-> (IF tile.is_horizontally_flipped THEN 1 ELSE 0)
                 + (IF tile.is_vertically_flipped THEN 1 ELSE 0)]

\* impl From<Tile> for RawTile; 1 << 1 is 2.
from(tile) ==
    [index |-> tile.sprite_index,
     color |-> tile.tint,
     flags |-> (IF tile.is_horizontally_flipped THEN 1 ELSE 0)
                 + (IF tile.is_vertically_flipped THEN 2 ELSE 0)]

InitFrom ==
    /\ NewWorldMap /\ dimensions = [x |-> 1, y |-> 1] /\ chunkSize = [w |-> 1, h |-> 1]
    /\ input \in Tiles
    /\ output = None
    /\ applied = 0

Convert ==
    /\ applied = 0
    /\ output' = from(input)
    /\ applied' = 1
    /\ UNCHANGED <<mapVars, events, readerVars, tileVars, input>>

NextFrom == Convert

SpecFrom == InitFrom /\ [][NextFrom]_vars

\* The RawTiles the exports are given; index 0 is left to the sparse fill.
RawTiles == [index : 1 .. MaxSprite, color : Colors, flags : 0 .. 3]

\* `as f32` of a small usize and Color::into::<[f32; 4]> keep the value.
AsF32(n) == n
ColorInto(color) == color

\* dense_tiles_to_attributes: every tile's attributes four times, tile after
\* tile.  tiles is the slice as a function on 0 .. len - 1.
dense_tiles_to_attributes(tiles) ==
    LET capacity == Cardinality(DOMAIN tiles) * 4
    IN  [tile_indexes |-> [k \in 1 .. capacity |-> AsF32(tiles[(k - 1) \div 4].index)],
         tile_flags |-> [k \in 1 .. capacity |-> tiles[(k - 1) \div 4].flags],
         tile_colors |-> [k \in 1 .. capacity |-> ColorInto(tiles[(k - 1) \div 4].color)]]

\* sparse_tiles_to_attributes: three buffers of area * 4 zero entries; the
\* loop overwrites tile_indexes and tile_colors at index * 4 + i where that
\* is inside the buffer, and never writes tile_flags.
sparse_tiles_to_attributes(area, tiles) ==
    [tile_indexes |-> [k \in 1 .. area * 4 |->
                          IF (k - 1) \div 4 \in DOMAIN tiles
                             THEN AsF32(tiles[(k - 1) \div 4].index) ELSE 0],
     tile_flags |-> [k \in 1 .. area * 4 |-> 0],
     tile_colors |-> [k \in 1 .. area * 4 |->
                         IF (k - 1) \div 4 \in DOMAIN tiles
                            THEN ColorInto(tiles[(k - 1) \div 4].color)
                            ELSE <<0, 0, 0, 0>>]]

\* A chunk's tiles: a HashMap<usize, RawTile> and the chunk's area.
InitExport ==
    /\ NewWorldMap /\ dimensions = [x |-> 1, y |-> 1] /\ chunkSize = [w |-> 1, h |-> 1]
    /\ input \in [area : 0 .. MaxArea,
                   tiles : UNION {[D -> RawTiles] : D \in SUBSET (0 .. MaxArea)}]
    /\ output = None
    /\ applied = 0

\* The tiles form a slice: keys 0 .. len - 1.
IsSlice(tiles) == DOMAIN tiles = 0 .. Cardinality(DOMAIN tiles) - 1

ExportDense ==
    /\ applied = 0
    /\ IsSlice(input.tiles)
    /\ output' = [fn |-> "dense", attrs |-> dense_tiles_to_attributes(input.tiles)]
    /\ applied' = 1
    /\ UNCHANGED <<mapVars, events, readerVars, tileVars, input>>

ExportSparse ==
    /\ applied = 0
    /\ output' = [fn |-> "sparse",
                  attrs |-> sparse_tiles_to_attributes(input.area, input.tiles)]
    /\ applied' = 1
    /\ UNCHANGED <<mapVars, events, readerVars, tileVars, input>>

NextExport ==
    \/ ExportDense
    \/ ExportSparse

SpecExport == InitExport /\ [][NextExport]_vars

----------------------------------------------------------------------------
(* The texture compositor on its own, over every argument                  *)

MaxPixel == 2        \* bytes per pixel 1 .. MaxPixel
MaxTexSide == 2      \* texture widths and heights 1 .. MaxTexSide pixels
MaxApplied == 2      \* compositor calls on one chunk buffer

\* The arguments of the call under study.  The chunk buffer starts filled
\* with one byte value; the sprite sheet holds a different byte at every
\* offset; the atlas knows texture handle 1 and no other.
CompositorInputs ==
    [tile : [texture : {None, 1, 2}],
     pixel_size : 1 .. MaxPixel,
     chunk_size : [x : 1 .. MaxTexSide, y : 1 .. MaxTexSide],
     fill : {0, 255},
     sheet_size : [x : 1 .. MaxTexSide, y : 1 .. MaxTexSide],
     sprite_min : [x : 0 .. MaxTexSide - 1, y : 0 .. MaxTexSide - 1],
     chunk_rect : [width : 1 .. MaxTexSide, height : 1 .. MaxTexSide],
     chunk_coord : [x : 0 .. MaxTexSide, y : 0 .. MaxTexSide]]

ChunkTexture(in, data) ==
    [size |-> in.chunk_size, pixel_size |-> in.pixel_size, data |-> data]

FreshChunkData(in) ==
    [i \in 1 .. in.chunk_size.x * in.chunk_size.y * in.pixel_size |-> in.fill]

SpriteSheetTexture(in) ==
    [size |-> in.sheet_size,
     data |-> [i \in 1 .. in.sheet_size.x * in.sheet_size.y * in.pixel_size |-> i]]

SpriteSheetAtlas(in) ==
    [texture_handles |-> (1 :> 0), textures |-> <<[min |-> in.sprite_min]>>]

\* One compositor call on a chunk buffer holding data.
Composited(in, data) ==
    texture_set_tiles(in.tile, ChunkTexture(in, data), SpriteSheetTexture(in),
                      SpriteSheetAtlas(in), in.chunk_rect, in.chunk_coord)

InitComposite ==
    /\ NewWorldMap /\ dimensions = [x |-> 1, y |-> 1] /\ chunkSize = [w |-> 1, h |-> 1]
    /\ input \in CompositorInputs
    /\ output = [data |-> FreshChunkData(input), panic |-> FALSE]
    /\ applied = 0

Composite ==
    /\ applied < MaxApplied
    /\ ~output.panic
    /\ output' = Composited(input, output.data)
    /\ applied' = applied + 1
    /\ UNCHANGED <<mapVars, events, readerVars, tileVars, input>>

NextComposite == Composite

SpecComposite == InitComposite /\ [][NextComposite]_vars

----------------------------------------------------------------------------
(* Properties *)

\* What the reader has been handed so far, followed by what its next drain
\* would hand it.
Reachable == delivered \o ReaderIter(events, reader)

\* The events in the current buffer of a kind: sent, not yet seen by a run
\* of map_system.
Unprocessed(kinds) ==
    Cardinality({i \in 1 .. Len(events.current) : events.current[i].ev.kind \in kinds})

\* The event a step has just appended to the log.
Newest(E) == E.current[Len(E.current)].ev

SlotHoldsChunk(index) == InVec(index) /\ get_chunk_handle(index) # None

\* C1: as long as update() has never been called twice between two drains of
\* the reader, the events delivered so far followed by the events the next
\* drain delivers are exactly the events sent, each once, in send order.
C1_ExactlyOnceInOrder ==
    cadenceOk =>
        /\ Payloads(Reachable) = sent
        /\ \A i \in 1 .. Len(Reachable) : Reachable[i].id = i

\* A drain has just emptied a log that holds events of two generations.
C1_Witness ==
    /\ cadenceOk
    /\ Len(sent) >= 2
    /\ Payloads(delivered) = sent
    /\ events.previous # <<>>
    /\ events.current # <<>>

\* C2: an event sent before the first of two update() calls with no drain in
\* between is never delivered by a later drain; every other event that has
\* not been delivered yet is still delivered by the next drain.
C2_SkippedGenerationLost ==
    /\ lateDelivered = {}
    /\ \A i \in 1 .. Len(sent) :
           (i \notin doomed /\ i \notin Ids(delivered))
               => i \in Ids(ReaderIter(events, reader))

\* An event was lost to a skipped generation and an event sent after it has
\* been delivered.
C2_Witness ==
    \E i \in doomed :
        /\ i \notin Ids(delivered)
        /\ \E j \in Ids(delivered) : j > i

\* C3: spawn has been invoked once for every Created event a run of
\* map_system has seen, and despawn once for every Despawned and every
\* Removed event a run has seen.
C3_OncePerEvent ==
    /\ spawnCalls + Unprocessed({"Created"}) = createdSent
    /\ despawnCalls + Unprocessed({"Despawned", "Removed"}) = despawnSent

\* C4: the chunk-handle array has exactly dimensions.x * dimensions.y slots.
C4_HandleArrayLength == Len(handles) = dimensions.x * dimensions.y

\* C5: add_chunk at an in-range coordinate stores the new handle in slot
\* y * mx + x, leaves the other slots alone, makes the chunk visible to
\* chunk_exists and get_chunk, and appends the one event Created{index, handle}.
C5_AddChunkStoresAndEmits ==
    [][\A c \in ChunkVals, x \in Coords, y \in Coords :
          (x < dimensions.x /\ y < dimensions.y /\ add_chunk(c, x, y)) =>
              LET index == y * dimensions.x + x
                  h == FreshHandle
              IN  /\ ~aborted'
                  /\ Len(handles') = Len(handles)
                  /\ index < Len(handles')
                  /\ handles'[index + 1] = h
                  /\ \A i \in 1 .. Len(handles) : i # index + 1 => handles'[i] = handles[i]
                  /\ chunk_exists_res(x, y)' = "true"
                  /\ get_chunk_res(x, y)' = [res |-> "Some", val |-> c]
                  /\ events'.previous = events.previous
                  /\ events'.current = Append(events.current,
                         [id |-> events.event_count + 1, ev |-> Created(index, h)])
      ]_vars

\* C6: set_chunk, get_chunk and get_chunk_mut return OutOfBounds for every
\* coordinate with x >= mx or y >= my, and get_chunk returns "no chunk" for an
\* in-range coordinate whose slot is empty.
C6_OutOfBoundsCoordinates ==
    \A x \in Coords, y \in Coords :
        /\ (x >= dimensions.x \/ y >= dimensions.y) =>
               /\ set_chunk_res(x, y) = "OutOfBounds"
               /\ get_chunk_res(x, y).res = "OutOfBounds"
               /\ get_chunk_mut_res(x, y).res = "OutOfBounds"
        /\ (/\ x < dimensions.x /\ y < dimensions.y
            /\ InVec(y * dimensions.x + x)
            /\ get_chunk_handle(y * dimensions.x + x) = None) =>
               get_chunk_res(x, y).res = "None"

\* C7: after a successful set_chunk(handle, chunk, coord) on a map whose
\* handle array has its dimensions.x * dimensions.y slots, chunk_exists(coord)
\* is true and get_chunk(coord) returns the chunk that was set.
C7_SetChunkSetsTheChunk ==
    [][\A h \in HandleIds, c \in ChunkVals, x \in Coords, y \in Coords :
          (/\ Len(handles) = dimensions.x * dimensions.y
           /\ set_chunk_res(x, y) = "Ok"
           /\ set_chunk(h, c, x, y)) =>
              /\ chunk_exists_res(x, y)' = "true"
              /\ get_chunk_res(x, y)' = [res |-> "Some", val |-> c]
      ]_vars

\* C8: a successful set_chunk appends exactly one event: Created{index, handle}
\* if the entity mapping has no entry at the index, Refresh{handle} if it has.
C8_SetChunkEvent ==
    [][\A h \in HandleIds, c \in ChunkVals, x \in Coords, y \in Coords :
          (set_chunk_res(x, y) = "Ok" /\ set_chunk(h, c, x, y)) =>
              LET index == y * dimensions.x + x
              IN  /\ events'.previous = events.previous
                  /\ events'.event_count = events.event_count + 1
                  /\ events'.current = Append(events.current,
                         [id |-> events.event_count + 1,
                          ev |-> IF index \in DOMAIN entities
                                    THEN Refresh(h) ELSE Created(index, h)])
      ]_vars

\* set_chunk has just sent Refresh for a chunk whose index has an entity.
C8_Witness ==
    /\ events.current # <<>>
    /\ Newest(events).kind = "Refresh"
    /\ DOMAIN entities # {}

\* C9: a successful set_chunk sends Refresh if the slot at its coordinate
\* holds a chunk and Created if it holds none.
C9_RefreshIffChunkExists ==
    [][\A h \in HandleIds, c \in ChunkVals, x \in Coords, y \in Coords :
          (set_chunk_res(x, y) = "Ok" /\ set_chunk(h, c, x, y)) =>
              LET index == y * dimensions.x + x
              IN  Newest(events').kind =
                      IF SlotHoldsChunk(index) THEN "Refresh" ELSE "Created"
      ]_vars

\* C10: chunk_exists never faults, and is true exactly when the index is
\* inside the handle array and the slot holds a reference.
C10_ChunkExistsTotal ==
    \A x \in Coords, y \in Coords :
        /\ chunk_exists_res(x, y) \in {"true", "false"}
        /\ chunk_exists_res(x, y) = "true" <=> SlotHoldsChunk(y * dimensions.x + x)

----------------------------------------------------------------------------
(* Tile writes: what the specification expects *)

\* The tile coordinate lies inside the map.
InExtent(coord) ==
    /\ coord.x < dimensions.x * chunkSize.w
    /\ coord.y < dimensions.y * chunkSize.h

\* The index of the chunk (floor(tx / WIDTH), floor(ty / HEIGHT)).
ChunkIndexOf(coord) ==
    (coord.y \div chunkSize.h) * dimensions.x + coord.x \div chunkSize.w

InExistingChunk(coord) == InExtent(coord) /\ SlotHoldsChunk(ChunkIndexOf(coord))

\* local_x = tx - cx * WIDTH, local_y = (HEIGHT - 1) - (ty - cy * HEIGHT).
LocalPlacement(coord) ==
    [x |-> coord.x - (coord.x \div chunkSize.w) * chunkSize.w,
     y |-> (chunkSize.h - 1) - (coord.y - (coord.y \div chunkSize.h) * chunkSize.h)]

\* A tile write can still be called.
TileWriteEnabled == ~aborted /\ tileOps < MaxTileOps

\* C11: for every tile coordinate in an existing chunk, set_tile succeeds and
\* the one event it appends is Modified with that chunk's handle and a setter
\* of one entry at local_x = tx - cx * WIDTH,
\* local_y = (HEIGHT - 1) - (ty - cy * HEIGHT).
C11_SetTileLocalPlacement ==
    TileWriteEnabled =>
        \A v \in TileCoords, tile \in TileVals :
            InExistingChunk(v) =>
                /\ set_tile_res(v) = "Ok"
                /\ set_tile_event(v, tile) =
                       Modified(get_chunk_handle(ChunkIndexOf(v)),
                                <<[coord |-> LocalPlacement(v), tile |-> tile]>>)

\* C12: on a map whose handle array has its dimensions.x * dimensions.y slots,
\* set_tile returns an out-of-bounds error for every tile coordinate outside
\* the map, rather than Ok or a panic.
C12_SetTileOutOfBounds ==
    (TileWriteEnabled /\ Len(handles) = dimensions.x * dimensions.y) =>
        \A v \in TileCoords : ~InExtent(v) => set_tile_res(v) = "OutOfBounds"

\* The positions of the setter's entries that fall in the slot at an index,
\* and in a slot that holds a given chunk reference.
EntriesOfSlot(setter, index) ==
    {i \in 1 .. Len(setter) : ChunkIndexOf(setter[i].coord) = index}
EntriesOfRef(setter, h) ==
    {i \in 1 .. Len(setter) : get_chunk_handle(ChunkIndexOf(setter[i].coord)) = h}

\* The event's setter holds the entries at the positions I of the input, each
\* once, in input order.
CarriesExactly(ev, setter, I) ==
    /\ Len(ev.setter) = Cardinality(I)
    /\ \A i \in I :
           LET rank == Cardinality({j \in I : j <= i})
           IN  /\ ev.setter[rank].tile = setter[i].tile
               /\ ev.setter[rank].coord = set_tiles_coord(setter[i].coord)

\* C13 as stated: for every setter whose entries fall in k distinct existing
\* chunk slots, set_tiles appends exactly k Modified events, one per slot,
\* each with exactly the entries of that slot in input order.
C13_OneEventPerChunkSlot ==
    TileWriteEnabled =>
        \A setter \in Setters :
            (\A i \in 1 .. Len(setter) : InExistingChunk(setter[i].coord)) =>
                LET slots == {ChunkIndexOf(setter[i].coord) : i \in 1 .. Len(setter)}
                IN  /\ set_tiles_res(setter) = "Ok"
                    /\ \A evs \in set_tiles_sent(setter) :
                           /\ Len(evs) = Cardinality(slots)
                           /\ \A index \in slots : \E n \in 1 .. Len(evs) :
                                  /\ evs[n].kind = "Modified"
                                  /\ evs[n].handle = get_chunk_handle(index)
                                  /\ CarriesExactly(evs[n], setter,
                                                    EntriesOfSlot(setter, index))

\* C13: for every setter whose entries fall in existing chunks with k distinct
\* chunk references, set_tiles appends exactly k Modified events, one per
\* reference, each with exactly the entries of the slots that hold that
\* reference, in input order.
C13_OneEventPerChunkReference ==
    TileWriteEnabled =>
        \A setter \in Setters :
            (\A i \in 1 .. Len(setter) : InExistingChunk(setter[i].coord)) =>
                LET refs == {get_chunk_handle(ChunkIndexOf(setter[i].coord)) :
                                i \in 1 .. Len(setter)}
                IN  /\ set_tiles_res(setter) = "Ok"
                    /\ \A evs \in set_tiles_sent(setter) :
                           /\ Len(evs) = Cardinality(refs)
                           /\ \A h \in refs : \E n \in 1 .. Len(evs) :
                                  /\ evs[n].kind = "Modified"
                                  /\ evs[n].handle = h
                                  /\ CarriesExactly(evs[n], setter,
                                                    EntriesOfRef(setter, h))

\* set_tiles has just sent two Modified events, for two chunks.
C13_Witness ==
    /\ tileOps = 1
    /\ ~aborted
    /\ Len(events.current) = 2
    /\ events.current[1].ev.kind = "Modified"
    /\ events.current[2].ev.kind = "Modified"
    /\ events.current[1].ev.handle # events.current[2].ev.handle

\* C14: for every chunk size and every tile coordinate in an existing chunk,
\* set_tiles places the entry at local_x = tx - cx * WIDTH,
\* local_y = (HEIGHT - 1) - (ty - cy * HEIGHT), and set_tiles with that single
\* entry sends the event set_tile sends for it.
C14_SetTilesSamePlacement ==
    TileWriteEnabled =>
        \A v \in TileCoords, tile \in TileVals :
            InExistingChunk(v) =>
                /\ set_tiles_coord(v) = LocalPlacement(v)
                /\ set_tiles_sent(<<[coord |-> v, tile |-> tile]>>) =
                       {<<set_tile_event(v, tile)>>}

\* Bit k of a non-negative number.
Bit(n, k) == (n \div 2 ^ k) % 2

\* C15: the conversion sets bit 0 of flags iff the tile is horizontally
\* flipped, bit 1 iff it is vertically flipped and no other bit (0b01 for
\* true/false, 0b11 for true/true), and copies sprite_index and tint into
\* index and color.
C15_FlipFlagsBitwise ==
    applied = 1 =>
        /\ Bit(output.flags, 0) = 1 <=> input.is_horizontally_flipped
        /\ Bit(output.flags, 1) = 1 <=> input.is_vertically_flipped
        /\ output.flags \in 0 .. 3
        /\ (input.is_horizontally_flipped /\ ~input.is_vertically_flipped)
               => output.flags = 1
        /\ (input.is_horizontally_flipped /\ input.is_vertically_flipped)
               => output.flags = 3
        /\ output.index = input.sprite_index
        /\ output.color = input.tint

\* A tile flipped both ways has been converted.
C15_Witness ==
    /\ applied = 1
    /\ input.is_horizontally_flipped
    /\ input.is_vertically_flipped
    /\ output.flags = 3

\* Entries 4i .. 4i+3 of the three arrays are tile i's index, flags and color.
CornersOf(attrs, i, tile) ==
    \A k \in 1 .. 4 :
        /\ attrs.tile_indexes[4 * i + k] = tile.index
        /\ attrs.tile_flags[4 * i + k] = tile.flags
        /\ attrs.tile_colors[4 * i + k] = tile.color

\* C16: in the dense export, and in the sparse export for every key below
\* area, entries 4i .. 4i+3 of the three arrays are the tile's sprite index,
\* flags and color; the sparse export of a mapping with a tile at every index
\* 0 .. area-1 equals the dense export of the same tiles.
C16_CornerReplication ==
    applied = 1 =>
        /\ output.fn = "dense" =>
               \A i \in DOMAIN input.tiles : CornersOf(output.attrs, i, input.tiles[i])
        /\ output.fn = "sparse" =>
               /\ \A i \in DOMAIN input.tiles :
                      i < input.area => CornersOf(output.attrs, i, input.tiles[i])
               /\ DOMAIN input.tiles = 0 .. input.area - 1 =>
                      output.attrs = dense_tiles_to_attributes(input.tiles)

\* C17: when the compositor completes, compositing the same tile at the same
\* place into the buffer a second time (and any further time) leaves the
\* buffer as one compositing of the fresh buffer left it.
C17_CompositingIdempotent ==
    (applied >= 2 /\ ~output.panic) =>
        output.data = Composited(input, FreshChunkData(input)).data

\* A sprite has been composited twice into a buffer and changed it.
C17_Witness ==
    /\ applied = 2
    /\ ~output.panic
    /\ input.tile.texture # None
    /\ output.data # FreshChunkData(input)

\* C18: the entity mapping has an entry at an index only if the entity
\* recorded there has been spawned and not despawned since; so once map_system
\* has despawned it, contains_entity(index) is false.
C18_EntityMappingOnlyForVisuals ==
    \A index \in DOMAIN entities : entities[index] \in live

----------------------------------------------------------------------------
(* map_system: what the specification expects of one run *)

\* The map, entity and chunk-texture state, and whether the run panicked.
Rendered(w) ==
    [entities |-> w.entities, live |-> w.live, handles |-> w.handles,
     chunks |-> w.chunks, textures |-> w.textures, panic |-> w.panic]

RenderedNow == Rendered([World EXCEPT !.panic = aborted])

\* The drained events replayed one by one in the order they were sent.
Replayed ==
    RunPasses(World, Payloads(ReaderIter(events_update(events), events_reader)))

\* C19: one run of map_system leaves the map, entity and chunk-texture state
\* that replaying the events it drains, one by one in the order they were
\* sent, leaves.
C19_EffectsInSendOrder ==
    [][map_system => RenderedNow' = Rendered(Replayed)]_vars

\* The current step is an explicit removal from slot index + 1, or resizes
\* the map.
ExplicitRelease(index) ==
    \/ \E d \in [x : Dims, y : Dims] : set_dimensions(d)
    \/ remove_chunk_handle(index)
    \/ /\ map_system
       /\ \E ev \in Bucket(ReaderIter(events_update(events), events_reader), "Removed") :
              ev.index = index

\* C20: a slot that holds a chunk reference holds the same reference after
\* every step that is neither set_dimensions nor an explicit removal from
\* that slot (remove_chunk_handle, or map_system processing a Removed event
\* for its index).
C20_NoImplicitRelease ==
    [][\A i \in 1 .. Len(handles) :
           (handles[i] # None /\ ~ExplicitRelease(i - 1))
               => (i <= Len(handles') /\ handles'[i] = handles[i])]_vars

----------------------------------------------------------------------------
(* The texture compositor: what the specification expects of one call *)

\* The tile has a sprite: the atlas has a rectangle for its texture.
HasSprite(in) ==
    /\ in.tile.texture # None
    /\ in.tile.texture \in DOMAIN SpriteSheetAtlas(in).texture_handles

\* The destination rectangle lies inside the chunk buffer.
DestinationFits(in) ==
    /\ in.chunk_coord.x + in.chunk_rect.width <= in.chunk_size.x
    /\ in.chunk_coord.y + in.chunk_rect.height <= in.chunk_size.y

\* The source rows lie inside the sprite sheet.
SourceFits(in) ==
    /\ in.sprite_min.x + in.chunk_rect.width <= in.sheet_size.x
    /\ in.sprite_min.y + in.chunk_rect.height <= in.sheet_size.y

\* 0-based offset of the first byte of pixel (x, y) in a buffer width pixels wide.
ByteOffset(in, x, y, width) == (y * width + x) * in.pixel_size

\* C21: when the tile has a sprite, the destination rectangle fits the chunk
\* buffer and the source rows fit the sprite sheet, the call does not leave
\* either buffer and afterwards every row of the destination rectangle holds
\* the bytes of the matching sprite-sheet row.
C21_RowCopy ==
    (applied >= 1 /\ HasSprite(input) /\ DestinationFits(input) /\ SourceFits(input)) =>
        /\ ~output.panic
        /\ \A r \in 0 .. input.chunk_rect.height - 1 :
           \A k \in 1 .. input.chunk_rect.width * input.pixel_size :
               output.data[ByteOffset(input, input.chunk_coord.x,
                                      input.chunk_coord.y + r, input.chunk_size.x) + k]
                 = SpriteSheetTexture(input).data[
                       ByteOffset(input, input.sprite_min.x,
                                  input.sprite_min.y + r, input.sheet_size.x) + k]

\* A sprite two pixels wide and two rows high, two bytes per pixel, has been
\* copied from the sheet's origin to the chunk buffer's origin.
C21_Witness ==
    /\ applied = 1
    /\ HasSprite(input) /\ DestinationFits(input) /\ SourceFits(input)
    /\ input.chunk_rect = [width |-> 2, height |-> 2]
    /\ input.pixel_size = 2
    /\ output.data # FreshChunkData(input)

\* Byte i (1-based) of the chunk buffer belongs to a pixel in the rows and
\* columns of the destination rectangle.
InDestination(in, i) ==
    LET pixel == (i - 1) \div in.pixel_size
        x == pixel % in.chunk_size.x
        y == pixel \div in.chunk_size.x
    IN  /\ x >= in.chunk_coord.x /\ x < in.chunk_coord.x + in.chunk_rect.width
        /\ y >= in.chunk_coord.y /\ y < in.chunk_coord.y + in.chunk_rect.height

----------------------------------------------------------------------------
(* map_system: where the Modified pass is expected to draw *)

\* The chunk texture's data with every entry of a setter, from entry i on,
\* drawn at the pixel rectangle of its local coordinate: top-left
\* (lx * w, ly * h) for tiles of w x h pixels.
RECURSIVE PlaceSetter(_, _, _)
PlaceSetter(data, setter, i) ==
    IF i > Len(setter) THEN data
    ELSE LET dest_x == setter[i].coord.x * TileRect.width
             dest_y == setter[i].coord.y * TileRect.height
         IN  PlaceSetter([data EXCEPT ![dest_y * ChunkTextureSize.x + dest_x + 1] =
                                          SpriteSheet.data[setter[i].tile]],
                         setter, i + 1)

\* The textures with the setters of a sequence of Modified events placed.
RECURSIVE PlaceAll(_, _)
PlaceAll(texs, evs) ==
    IF evs = <<>> THEN texs
    ELSE PlaceAll([texs EXCEPT ![Head(evs).handle] =
                                   PlaceSetter(texs[Head(evs).handle], Head(evs).setter, 1)],
                  Tail(evs))

\* C23: a run of map_system that drains only Modified events, each for a
\* registered chunk and with local coordinates inside the chunk, draws every
\* setter entry at the pixel rectangle of its local coordinate and stays
\* inside the chunk texture, whatever the chunk's width and height.
C23_ModifiedPlacement ==
    [][map_system =>
         LET got == Payloads(ReaderIter(events_update(events), events_reader))
         IN  (\A i \in 1 .. Len(got) :
                  /\ got[i].kind = "Modified"
                  /\ got[i].handle \in DOMAIN chunks
                  /\ \A j \in 1 .. Len(got[i].setter) :
                         got[i].setter[j].coord \in LocalCoords)
                 => /\ ~aborted'
                    /\ textures' = PlaceAll(textures, got)]_vars

----------------------------------------------------------------------------
(* Visual entities *)

\* The entities a Despawned or Removed event still held by the event log
\* asks to despawn.
DespawnRequested ==
    {ev.entity : ev \in Bucket(events.previous \o events.current, "Despawned")
                            \cup Bucket(events.previous \o events.current, "Removed")}

\* C24: every entity map_system has spawned, and nobody has asked to despawn,
\* is the entity the mapping records under some index.
C24_NoOrphanedEntities ==
    \A e \in live \ DespawnRequested :
        \E index \in DOMAIN entities : entities[index] = e

----------------------------------------------------------------------------
(* set_chunk: the failing call *)

\* C25: a set_chunk that returns OutOfBounds appends no event, registers or
\* updates no chunk, and leaves the handle array and the entity mapping as
\* they were.
C25_FailingSetChunkNoEffect ==
    [][\A h \in HandleIds, c \in ChunkVals, x \in Coords, y \in Coords :
          (set_chunk_res(x, y) = "OutOfBounds" /\ set_chunk(h, c, x, y)) =>
              UNCHANGED <<events, chunks, handles, entities>>
      ]_vars

\* A map that holds a chunk, an event and a recorded entity, on which some
\* set_chunk call fails.
C25_Witness ==
    /\ ~aborted
    /\ chunks # <<>> /\ events.current # <<>> /\ DOMAIN entities # {}
    /\ \E x \in Coords, y \in Coords : set_chunk_res(x, y) = "OutOfBounds"

====
